---- MODULE Spec2Model ----
(***************************************************************************)
(* Model of the network lifecycle orchestrator of the LTE simulator        *)
(* (tui/network_manager.py, class NetworkManager) as it is driven by the   *)
(* terminal UI (tui/main.py).                                              *)
(*                                                                         *)
(* start_network and stop_network are coroutines.  The UI starts them as   *)
(* workers on one asyncio event loop, so several of them can be in flight  *)
(* at once; control passes from one to another only where a coroutine      *)
(* really suspends: create_subprocess_exec, asyncio.sleep, process.wait.   *)
(* Every action below is one run of a worker from one suspension point to  *)
(* the next (or to its return), so the code between two suspension points  *)
(* is atomic, as it is on the event loop.                                  *)
(***************************************************************************)
EXTENDS Integers, Sequences, FiniteSets, Bags, TLC

\* ------------------------------------------------------------------ bounds
NumTasks == 2          \* calls in flight at the same time
MaxProcs == 3          \* processes spawned over one behaviour

\* ------------------------------------------------------- program constants
SettleDelay == 2       \* asyncio.sleep(2) after each spawn
GracePeriod == 5       \* wait_for(process.wait(), timeout=5.0)

NoProc == 0            \* a handle that is None
EmptyConfig == <<>>    \* the dict {} (falsy)
Configs == {EmptyConfig, [plmn_id |-> "cfgA"]}

VARIABLES
    is_running,      \* NetworkManager.is_running
    current_config,  \* NetworkManager.current_config
    epc_process,     \* NetworkManager.epc_process: index into procs, or NoProc
    enb_process,     \* NetworkManager.enb_process: index into procs, or NoProc
    procs,           \* every process spawned so far, in spawn order
    workers,         \* the calls in flight: a bag of suspended coroutines
    ev,              \* what the last step of a worker did
    is_connected,    \* SDRController.is_connected
    device_args,     \* SDRController.device_args
    device_serial,   \* SDRController.device_serial
    sdr,             \* the SDRController call in flight, or SdrIdle
    sdr_ev,          \* what the last step of an SDRController call did
    gen,             \* the generate_config call of the running handler, and its outcome
    remembered       \* history: the first call that derived a cell id and a LAC

netVars == <<is_running, current_config, epc_process, enb_process, procs, workers, ev>>

sdrVars == <<is_connected, device_args, device_serial, sdr, sdr_ev>>

genVars == <<gen, remembered>>

vars == <<netVars, sdrVars, genVars>>

\* ---------------------------------------------------------------- helpers
Step(k, obj) == [e |-> k, p |-> obj]

In(tr, k) == \E i \in 1..Len(tr) : tr[i].e = k

\* One step of a worker: the signal it sent and to which process, the
\* process whose awaited _stop_process returned, whether start_network went
\* into _save_config, and, when the call returned, which call it was and its
\* value; with a signal or a return, the steps the call has taken so far.
\* status is the dict get_network_status returned; logs is what the health
\* check found in the two process logs and what the scan came to.
Event(kind, sig, p, stopped, wrote, call, result, tr) ==
    [kind |-> kind, sig |-> sig, proc |-> p, stopped |-> stopped,
     wrote |-> wrote, call |-> call, result |-> result, trace |-> tr,
     status |-> <<>>, logs |-> <<>>]

NoEvent == Event("none", "none", NoProc, NoProc, FALSE, "none", "none", <<>>)

\* A suspended coroutine: the call it belongs to, where it is suspended, the
\* time elapsed in its sleep or wait_for, _stop_process's parameters
\* `process` and `name`, and the steps its call has taken so far.  stop_seen
\* is history, not program state: stop_network was called while this
\* start_network was in flight.
Worker(call, at, p, nm, tr) ==
    [call |-> call, pc |-> at, timer |-> 0, process |-> p, name |-> nm, trace |-> tr,
     stop_seen |-> FALSE]

\* The same coroutine at its next suspension point.
Resume(w, at, p, nm, tr) ==
    [w EXCEPT !.pc = at, !.timer = 0, !.process = p, !.name = nm, !.trace = tr]

InFlight == BagToSet(workers)

\* A supervised process is "running" (no signal sent), "terminating"
\* (terminate sent), "killed" (kill sent, not reaped yet) or "exited" (it has
\* a return code).
Exited(p) == procs[p].state = "exited"

\* a handle that is set and whose process.returncode is None
Alive(p) == p # NoProc /\ ~Exited(p)

\* ------------------------------------------------- SDR controller: state
\* SDRController.__init__, line 29
DefaultArgs == "type=b200,master_clock_rate=23.04e6"

\* One step of an SDRController call in its log: an external tool was
\* launched ("launch"), could not be launched ("launch_failed") or exited
\* with a return code ("done").  gain is the `--gain` argument of a round of
\* the gain loop, -1 elsewhere.
SdrStep(e, stage, code) == [e |-> e, stage |-> stage, code |-> code, gain |-> -1]

\* An SDRController coroutine: the call it belongs to, the external
\* invocation it is at (stage; iter counts the rounds of a loop), whether
\* it is suspended in create_subprocess_exec ("exec") or in communicate
\* ("comm"), the results collected so far, and the steps taken so far.
SdrCall(call, stage, results) ==
    [call |-> call, stage |-> stage, iter |-> 1, phase |-> "exec",
     results |-> results, log |-> <<>>]

SdrIdle == [call |-> "none", stage |-> "none", iter |-> 1, phase |-> "none",
            results |-> <<>>, log |-> <<>>]

\* What the last step of an SDRController call did and, when the call
\* returned, which call it was, its value and its steps.
SdrEvent(kind, call, value, log) ==
    [kind |-> kind, call |-> call, value |-> value, log |-> log]

NoSdrEvent == SdrEvent("none", "none", <<>>, <<>>)

\* SDRController.__init__, lines 29-32
SdrInit ==
    /\ is_connected = FALSE
    /\ device_args = DefaultArgs
    /\ device_serial = "None"
    /\ sdr = SdrIdle
    /\ sdr_ev = NoSdrEvent

\* ---------------------------------------------- generate_config: state
\* No _generate_config handler is running; no derivation is remembered.
NoCall == [called |-> FALSE]

GenInit ==
    /\ gen = NoCall
    /\ remembered = NoCall

TypeOK ==
    /\ is_running \in BOOLEAN
    /\ current_config \in Configs \/ "plmn_id" \in DOMAIN current_config
    /\ gen.called \in BOOLEAN /\ remembered.called \in BOOLEAN
    /\ epc_process \in 0..Len(procs)
    /\ enb_process \in 0..Len(procs)
    /\ Len(procs) <= MaxProcs
    /\ BagCardinality(workers) <= NumTasks
    /\ \A w \in InFlight : w.timer \in 0..GracePeriod /\ w.stop_seen \in BOOLEAN
    /\ is_connected \in BOOLEAN
    /\ device_serial \in {"None", "Unknown", "30F1"}
    /\ sdr.call \in {"none", "connect", "detect", "test", "calibrate"}
    /\ sdr.phase \in {"none", "exec", "comm"}

Init ==
    /\ is_running = FALSE
    /\ current_config = EmptyConfig
    /\ epc_process = NoProc
    /\ enb_process = NoProc
    /\ procs = <<>>
    /\ workers = EmptyBag
    /\ ev = NoEvent
    /\ SdrInit
    /\ GenInit

\* ------------------------------------------------ the pieces of the code
\* (mutant: the guard is missing)
AlreadyRunning_NoGuard == FALSE

\* start_network, line 365: `if self.is_running:`
AlreadyRunning == is_running

\* start_network, line 372: `if config:` (an empty dict is falsy)
ConfigProvided(cfg) == cfg # EmptyConfig

\* What the health check can find of a process log: the file is not there,
\* cannot be opened or read, has no marker in it (it is empty, say), or has
\* "ERROR" or "FATAL" in it.
LogStates == {"missing", "unreadable", "empty", "errors"}

\* (mutant: an error of the scan is not caught)
CheckLogForErrors_Propagates(epc_log, enb_log) ==
    IF epc_log = "unreadable" \/ enb_log = "unreadable" THEN "raised"
    ELSE IF epc_log = "errors" \/ enb_log = "errors" THEN "warning"
    ELSE "quiet"

\* _check_log_for_errors, lines 474-495: a log that exists is read and a
\* marker in it logs a warning; open() or read() raising is caught by line
\* 494, which logs a warning (the eNodeB log is then not looked at).  The
\* coroutine returns None either way: "raised" is never its outcome.
CheckLogForErrors(epc_log, enb_log) ==
    IF epc_log = "unreadable" THEN "warning"
    ELSE IF enb_log = "unreadable" THEN "warning"
    ELSE IF epc_log = "errors" \/ enb_log = "errors" THEN "warning"
    ELSE "quiet"

\* _verify_network_status, lines 452-458: a handle that is set and has a
\* return code fails the check; a handle that is None is skipped.
ProcessesAlive ==
    /\ ~(epc_process # NoProc /\ Exited(epc_process))
    /\ ~(enb_process # NoProc /\ Exited(enb_process))

\* _verify_network_status, lines 450-472: the liveness check, then the log
\* scan (not reached when the liveness check fails); an exception of the
\* scan would make lines 470-472 return False.
VerifyNetworkStatus(epc_log, enb_log) ==
    /\ ProcessesAlive
    /\ CheckLogForErrors(epc_log, enb_log) # "raised"

\* (mutant: the settle delay is not awaited)
SleepElapsed_NoWait(w) == TRUE

\* asyncio.sleep(2) has elapsed
SleepElapsed(w) == w.timer = SettleDelay

\* (mutant: the kill does not wait for the grace period)
GraceExpired_NoWait(w) == TRUE

\* wait_for(process.wait(), timeout=5.0) raises TimeoutError
GraceExpired(w) == w.timer = GracePeriod

\* (mutant: the process is not awaited)
Reaped_NoWait(p) == TRUE

\* process.wait() returns
Reaped(p) == Exited(p)

\* (mutant: stop_network reports failure)
StopResult_False == "false"

\* stop_network, line 520: `return True`
StopResult == "true"

\* the value a call returns once its stop sequence is over: stop_network
\* returns True (line 520); start_network ignores that and returns False
\* (lines 391-392, 396-397)
ReturnValue(call) == IF call = "stop" THEN StopResult ELSE "false"

\* asyncio.create_subprocess_exec: a new process, running, no signal sent.
\* Its log was opened just before (lines 408, 432) and is held only by the
\* local epc_log / enb_log: log_closed tells whether the program has called
\* close() on it.  No line of network_manager.py does, so the field keeps
\* the value it gets here.
NewProc(k) == [kind |-> k, state |-> "running", log_closed |-> FALSE]

\* process.terminate() and process.kill() on a process without return code
Terminated(p) ==
    [procs EXCEPT ![p].state = IF @ = "running" THEN "terminating" ELSE @]

Killed(p) == [procs EXCEPT ![p].state = "killed"]

\* ----------------------------------------------- what one step results in
\* The state a step leaves: the orchestrator's fields, the processes, and the
\* worker, which either returned or is suspended as `next`.
Outcome(run, epc, enb, ps, returns, next, e) ==
    [run |-> run, epc |-> epc, enb |-> enb, procs |-> ps,
     returns |-> returns, next |-> next, ev |-> e]

\* The call returns.
Returns(w, run, epc, enb, val, tr, kind, stopped, wrote) ==
    Outcome(run, epc, enb, procs, TRUE, w,
            Event(kind, "none", NoProc, stopped, wrote, w.call, val, tr))

\* The worker suspends inside start_network.
Suspends(w, epc, enb, ps, at, tr, kind, wrote) ==
    Outcome(is_running, epc, enb, ps, FALSE, Resume(w, at, NoProc, "none", tr),
            Event(kind, "none", NoProc, NoProc, wrote, "none", "none", <<>>))

\* _stop_process, lines 531-536, for a process that has no return code:
\* terminate() is sent and the worker suspends in wait_for(process.wait()).
StopProcess(w, p, nm, enb, tr, kind, stopped, wrote) ==
    Outcome(is_running, epc_process, enb, Terminated(p), FALSE,
            Resume(w, "wait_term", p, nm, tr),
            Event(kind, "term", p, stopped, wrote, "none", "none", tr))

\* stop_network, lines 513-520, entered once the eNodeB part is over (the
\* handle is None by then).  A handle whose process already has a return code
\* makes _stop_process return at once (line 531), so only a live EPC suspends
\* the worker.
StopEpc(w, tr, kind, stopped, wrote) ==
    IF Alive(epc_process)
    THEN StopProcess(w, epc_process, "EPC", NoProc, tr, kind, stopped, wrote)
    ELSE Returns(w, FALSE, NoProc, NoProc, ReturnValue(w.call),
                 Append(tr, Step("epc_stopped", epc_process)), kind, stopped, wrote)

\* (mutant: the core-network process is stopped without stopping the
\* base-station process first)
StopNetwork_EpcFirst(w, tr, kind, wrote) == StopEpc(w, tr, kind, NoProc, wrote)

\* stop_network, lines 505-520, from its first line.
StopNetwork(w, tr, kind, wrote) ==
    IF Alive(enb_process)
    THEN StopProcess(w, enb_process, "eNodeB", enb_process, tr, kind, NoProc, wrote)
    ELSE StopEpc(w, Append(tr, Step("enb_stopped", enb_process)), kind, NoProc, wrote)

\* _stop_process has returned to stop_network: line 511 and on, or lines
\* 516-520.
AfterStopProcess(w, kind) ==
    IF w.name = "eNodeB"
    THEN StopEpc(w, Append(w.trace, Step("enb_stopped", w.process)), kind,
                 w.process, FALSE)
    ELSE Returns(w, FALSE, NoProc, enb_process, ReturnValue(w.call),
                 Append(w.trace, Step("epc_stopped", w.process)), kind,
                 w.process, FALSE)

\* start_network, lines 364-374, and _start_epc up to its
\* `await create_subprocess_exec`.  _save_config (lines 216-234) and the
\* open() of the log (line 408) may raise; lines 394-397 then run
\* stop_network and return False.
StartNetwork(w, cfg, saveOk, openOk) ==
    LET given == ConfigProvided(cfg)
        tr0 == IF given
               THEN <<Step(IF saveOk THEN "save_config" ELSE "save_failed", 0)>>
               ELSE <<Step("no_config", 0)>>
    IN
    IF AlreadyRunning
    THEN Returns(w, is_running, epc_process, enb_process, "false", <<>>,
                 "start_call", NoProc, FALSE)
    ELSE IF given /\ ~saveOk
    THEN StopNetwork(w, tr0, "start_call", given)
    ELSE IF ~openOk
    THEN StopNetwork(w, Append(tr0, Step("epc_spawn_failed", 0)), "start_call", given)
    ELSE Suspends(w, epc_process, enb_process, procs, "epc_exec", tr0,
                  "start_call", given)

\* _start_enb, lines 426-434, up to its `await create_subprocess_exec`;
\* opening its log may raise.
StartEnb(w, tr, openOk) ==
    IF openOk
    THEN Suspends(w, epc_process, enb_process, procs, "enb_exec", tr,
                  "sleep1_done", FALSE)
    ELSE StopNetwork(w, Append(tr, Step("enb_spawn_failed", 0)), "sleep1_done", FALSE)

\* what the log scan of this health check saw and came to (<<>> when the
\* liveness check failed before it)
Scanned(epc_log, enb_log) ==
    IF ProcessesAlive
    THEN <<epc_log, enb_log, CheckLogForErrors(epc_log, enb_log)>>
    ELSE <<>>

\* start_network, lines 384-392.
Verify(w, tr, epc_log, enb_log) ==
    LET out == IF VerifyNetworkStatus(epc_log, enb_log)
               THEN Returns(w, TRUE, epc_process, enb_process, "true", tr,
                            "sleep2_done", NoProc, FALSE)
               ELSE StopNetwork(w, Append(tr, Step("verify_failed", 0)),
                                "sleep2_done", FALSE)
    IN  [out EXCEPT !.ev.logs = Scanned(epc_log, enb_log)]

\* The step takes effect.  `old` is the bag the worker was suspended in.
Apply(old, out) ==
    /\ is_running' = out.run
    /\ epc_process' = out.epc
    /\ enb_process' = out.enb
    /\ procs' = out.procs
    /\ workers' = IF out.returns THEN old ELSE old (+) SetToBag({out.next})
    /\ ev' = out.ev
    /\ UNCHANGED <<sdrVars, genVars>>

Others(w) == workers (-) SetToBag({w})

\* The calls in flight, each start_network among them noted as having seen a
\* stop_network call.
StopSeen ==
    LET seen(w) == IF w.call = "start" THEN [w EXCEPT !.stop_seen = TRUE] ELSE w
    IN  BagOfAll(seen, workers)

\* ---------------------------------------------------------------- actions
\* start_network is called (main.py 466-469 starts it as a worker, 215-216
\* awaits it from the button handler) and runs to its first suspension.
StartCall(cfg) ==
    /\ BagCardinality(workers) < NumTasks
    /\ \E saveOk, openOk \in BOOLEAN :
       /\ AlreadyRunning => saveOk /\ openOk
       /\ ConfigProvided(cfg) \/ saveOk
       /\ saveOk \/ openOk
       /\ Apply(workers, StartNetwork(Worker("start", "new", NoProc, "none", <<>>),
                                      cfg, saveOk, openOk))
    /\ current_config' = IF ~AlreadyRunning /\ ConfigProvided(cfg)
                         THEN cfg ELSE current_config

\* create_subprocess_exec returns the core-network process: line 410 assigns
\* the handle, line 378 suspends in the first settle delay.
EpcSpawned(w) ==
    /\ w.pc = "epc_exec"
    /\ Len(procs) < MaxProcs
    /\ Apply(Others(w),
             Suspends(w, Len(procs) + 1, enb_process, Append(procs, NewProc("epc")),
                      "sleep1", Append(w.trace, Step("spawn_epc", Len(procs) + 1)),
                      "epc_spawned", FALSE))
    /\ UNCHANGED current_config

\* create_subprocess_exec raises: lines 419-421 re-raise, lines 394-397 run
\* stop_network and return False.
EpcSpawnFailed(w) ==
    /\ w.pc = "epc_exec"
    /\ Apply(Others(w),
             StopNetwork(w, Append(w.trace, Step("epc_spawn_failed", 0)),
                         "epc_spawn_failed", FALSE))
    /\ UNCHANGED current_config

\* The first settle delay is over: _start_enb begins.
Sleep1Done(w) ==
    /\ w.pc = "sleep1"
    /\ SleepElapsed(w)
    /\ \E openOk \in BOOLEAN :
       Apply(Others(w), StartEnb(w, Append(w.trace, Step("delay", w.timer)), openOk))
    /\ UNCHANGED current_config

\* create_subprocess_exec returns the base-station process: line 434 assigns
\* the handle, line 382 suspends in the second settle delay.
EnbSpawned(w) ==
    /\ w.pc = "enb_exec"
    /\ Len(procs) < MaxProcs
    /\ Apply(Others(w),
             Suspends(w, epc_process, Len(procs) + 1, Append(procs, NewProc("enb")),
                      "sleep2", Append(w.trace, Step("spawn_enb", Len(procs) + 1)),
                      "enb_spawned", FALSE))
    /\ UNCHANGED current_config

\* create_subprocess_exec raises: lines 443-445 re-raise, lines 394-397 run
\* stop_network and return False.
EnbSpawnFailed(w) ==
    /\ w.pc = "enb_exec"
    /\ Apply(Others(w),
             StopNetwork(w, Append(w.trace, Step("enb_spawn_failed", 0)),
                         "enb_spawn_failed", FALSE))
    /\ UNCHANGED current_config

\* The second settle delay is over: the health check runs.
Sleep2Done(w) ==
    /\ w.pc = "sleep2"
    /\ SleepElapsed(w)
    /\ \E epc_log, enb_log \in LogStates :
       /\ Apply(Others(w),
                Verify(w, w.trace \o <<Step("delay", w.timer), Step("verify", 0)>>,
                       epc_log, enb_log))
    /\ UNCHANGED current_config

\* stop_network is called (main.py 471-474, 217-218, 490-494).
StopCall ==
    /\ BagCardinality(workers) < NumTasks
    /\ Apply(StopSeen, StopNetwork(Worker("stop", "new", NoProc, "none", <<>>),
                                  <<>>, "stop_call", FALSE))
    /\ UNCHANGED current_config

\* _stop_process, lines 536-537: process.wait() returned within the grace
\* period.  (When the timeout and the exit fall together, kill() finds the
\* process gone and line 544 swallows the error: the same outcome.)
WaitTermExited(w) ==
    /\ w.pc = "wait_term"
    /\ Reaped(w.process)
    /\ Apply(Others(w), AfterStopProcess(w, "wait_term_exited"))
    /\ UNCHANGED current_config

\* _stop_process, lines 538-541: the grace period is over and the process
\* still runs: kill() is sent and the worker suspends in process.wait().
WaitTermTimeout(w) ==
    /\ w.pc = "wait_term"
    /\ GraceExpired(w)
    /\ ~Exited(w.process)
    /\ Apply(Others(w),
             Outcome(is_running, epc_process, enb_process, Killed(w.process), FALSE,
                     [w EXCEPT !.pc = "wait_kill"],
                     Event("wait_term_timeout", "kill", w.process, NoProc, FALSE,
                           "none", "none", w.trace)))
    /\ UNCHANGED current_config

\* _stop_process, lines 541-542: the killed process has been reaped.
WaitKillDone(w) ==
    /\ w.pc = "wait_kill"
    /\ Reaped(w.process)
    /\ Apply(Others(w), AfterStopProcess(w, "wait_kill_done"))
    /\ UNCHANGED current_config

\* (mutant: the alive flag looks at the handle only)
EpcRunning_HandleOnly == epc_process # NoProc

\* get_network_status, lines 576-577: "epc_running"
EpcRunning == epc_process # NoProc /\ procs[epc_process].state # "exited"

\* (mutant: the alive flag looks at the handle only)
EnbRunning_HandleOnly == enb_process # NoProc

\* get_network_status, lines 578-579: "enb_running"
EnbRunning == enb_process # NoProc /\ procs[enb_process].state # "exited"

\* get_connected_ue_count and get_throughput, lines 547-569: placeholders
\* that return 0 and 0.0
ConnectedUeCount == 0

Throughput == 0

\* get_network_status, lines 574-583: the dict it returns
NetworkStatus ==
    [is_running |-> is_running, epc_running |-> EpcRunning,
     enb_running |-> EnbRunning, connected_ues |-> ConnectedUeCount,
     throughput_mbps |-> Throughput, config |-> current_config]

\* get_network_status is called (main.py 444).  The two coroutines it awaits
\* return without suspending, so the call is one step.
GetNetworkStatus ==
    /\ ev' = [NoEvent EXCEPT !.kind = "status", !.status = NetworkStatus]
    /\ UNCHANGED <<is_running, current_config, epc_process, enb_process, procs, workers>>
    /\ UNCHANGED <<sdrVars, genVars>>

\* ------------------------------------------------------------ environment
\* A supervised process exits (on its own, or after a signal) and the event
\* loop records its return code.
ProcExit(p) ==
    /\ ~Exited(p)
    /\ procs' = [procs EXCEPT ![p].state = "exited"]
    /\ ev' = NoEvent
    /\ UNCHANGED <<is_running, current_config, epc_process, enb_process, workers>>
    /\ UNCHANGED <<sdrVars, genVars>>

Deadline(w) ==
    IF w.pc \in {"sleep1", "sleep2"} THEN SettleDelay
    ELSE IF w.pc = "wait_term" THEN GracePeriod
    ELSE 0

\* Time passes until the sleep or the timeout of a worker runs out.  Nothing
\* forces a worker to resume at once, so the workers' clocks need not be
\* compared with each other.
Elapse(w) ==
    /\ w.timer < Deadline(w)
    /\ workers' = Others(w) (+) SetToBag({[w EXCEPT !.timer = Deadline(w)]})
    /\ ev' = NoEvent
    /\ UNCHANGED <<is_running, current_config, epc_process, enb_process, procs>>
    /\ UNCHANGED <<sdrVars, genVars>>

Next ==
    \/ \E cfg \in Configs : StartCall(cfg)
    \/ \E w \in InFlight : EpcSpawned(w)
    \/ \E w \in InFlight : EpcSpawnFailed(w)
    \/ \E w \in InFlight : Sleep1Done(w)
    \/ \E w \in InFlight : EnbSpawned(w)
    \/ \E w \in InFlight : EnbSpawnFailed(w)
    \/ \E w \in InFlight : Sleep2Done(w)
    \/ StopCall
    \/ \E w \in InFlight : WaitTermExited(w)
    \/ \E w \in InFlight : WaitTermTimeout(w)
    \/ \E w \in InFlight : WaitKillDone(w)
    \/ GetNetworkStatus
    \/ \E p \in 1..Len(procs) : ProcExit(p)
    \/ \E w \in InFlight : Elapse(w)

Spec == Init /\ [][Next]_vars

\* ================================================== SDR controller
\* (tui/sdr_controller.py, class SDRController).  connect, test and calibrate
\* are awaited one after the other by the button handler (main.py 204-232),
\* so one of them is in flight at a time.  Each external tool is started with
\* create_subprocess_exec and awaited with communicate; both suspend.

\* the return codes an external tool may end with
ExitCodes == {0, 1, 124}

\* `returncode in [0, 124]` (lines 205, 264, 291, 355, 450, 482, 521)
AcceptableCodes == {0, 124}

\* what connect may be given as device_args: nothing, or a string
ArgsGiven == {"", "type=b200,serial=30F1"}

\* The outcome of one external invocation: create_subprocess_exec raised,
\* or the tool ran and ended with `code`; `good` tells whether its output
\* holds what the caller looks for in it.
Launched(code, good) == [raised |-> FALSE, code |-> code, good |-> good]

LaunchRaised == [raised |-> TRUE, code |-> -1, good |-> FALSE]

\* ------------------------------------------------------------- connect
\* connect, line 129: `if result.returncode != 0:` fails the probe
ProbeOk(out) == out.code = 0

\* _parse_probe_output and line 135: the serial found in the probe's output,
\* or 'Unknown'
ParseSerial(out) == IF out.good THEN "30F1" ELSE "Unknown"

\* _test_basic_functionality, lines 177-209
TestBasicFunctionality(out) == ~out.raised /\ out.code \in AcceptableCodes

\* ----------------------------------------------------------- calibrate
\* (mutant: calibrate is entered without a connection)
CalibrateNotConnected_NoGuard == FALSE

\* calibrate, line 220: `if not self.is_connected:`
CalibrateNotConnected == ~is_connected

\* _calibrate_dc_offset, lines 248-273
CalibrateDcOffset(out) == ~out.raised /\ out.code \in AcceptableCodes

\* _calibrate_iq_imbalance, lines 275-300
CalibrateIqImbalance(out) == ~out.raised /\ out.code \in AcceptableCodes

\* _test_frequency, lines 328-359
TestFrequency(out) == ~out.raised /\ out.code \in AcceptableCodes

\* _test_frequency_ranges, lines 306-310: test_frequencies
FrequencyStages == <<"freq_900000000", "freq_1800000000", "freq_2100000000">>

\* (mutant: the frequency sweep runs before the IQ-imbalance calibration)
CalibrationOrder_SweepBeforeIq == <<"dc">> \o FrequencyStages \o <<"iq">>

\* calibrate, lines 226-233, and the loop of _test_frequency_ranges, lines
\* 314-320: the external invocations of calibrate in the order of the code
CalibrationOrder == <<"dc", "iq">> \o FrequencyStages

\* the result of the invocation `stage` of calibrate
PhaseResult(stage, out) ==
    IF stage = "dc" THEN CalibrateDcOffset(out)
    ELSE IF stage = "iq" THEN CalibrateIqImbalance(out)
    ELSE TestFrequency(out)

\* (mutant: the last frequency decides)
AllTestsPassed_LastOnly(results) == results[Len(results)].ok

\* _test_frequency_ranges, lines 312-322: all_tests_passed
AllTestsPassed(results) ==
    \A i \in 1..Len(results) :
       results[i].name \notin {"dc", "iq"} => results[i].ok

ResultOf(results, name) ==
    \A i \in 1..Len(results) : results[i].name = name => results[i].ok

\* (mutant: only the frequency sweep decides)
CalibrationSuccessful_SweepOnly(dc, iq, freq) == freq

\* calibrate, line 235: all([dc_cal_result, iq_cal_result, freq_test_result])
CalibrationSuccessful(dc, iq, freq) == dc /\ iq /\ freq

\* ---------------------------------------------------------------- test
\* (mutant: test goes on without a connection)
TestNotConnected_NoGuard == FALSE

\* test, line 375: `if not self.is_connected:`
TestNotConnected == ~is_connected

\* test, lines 378-394: the sub-tests that run an external tool, in the
\* order of the code ("gain" is the loop of _test_gain_control)
TestOrder == <<"hw", "clock", "tx", "rx", "gain">>

\* _test_gain_control, line 503: test_gains
TestGains == <<0, 25, 50, 75>>

\* test, lines 379-394: the key each sub-test is reported under
TestName(stage) ==
    IF stage = "hw" THEN "Hardware Detection"
    ELSE IF stage = "clock" THEN "Clock Stability"
    ELSE IF stage = "tx" THEN "TX Path"
    ELSE IF stage = "rx" THEN "RX Path"
    ELSE "Gain Control"

Verdict(ok) == IF ok THEN "pass" ELSE "fail"

\* (mutant: a sub-test lets the launch error through)
SubTestExcept_Reraise(stage) == "raise"

\* What a sub-test returns when its tool cannot be launched:
\* _test_hardware_detection gets [] from detect_devices (lines 75-77) and
\* returns False (line 408); _test_clock_stability returns True (lines
\* 428-429); _test_tx_path and _test_rx_path return False (lines 452-453,
\* 484-485).
SubTestExcept(stage) == IF stage = "clock" THEN "pass" ELSE "fail"

\* _test_hardware_detection with detect_devices, lines 55-77 and 406-408:
\* a device list that is not empty and names a b200
TestHardwareDetection(out) == out.code = 0 /\ out.good

\* _parse_device_output, lines 79-102: the devices the tool's output lists
ParseDeviceOutput(out) == IF out.good THEN <<[type |-> "b200"]>> ELSE <<>>

\* (mutant: the return code of the enumeration tool is not looked at)
DetectDevices_NoCheck(out) == ParseDeviceOutput(out)

\* detect_devices, lines 55-77: [] when the tool cannot be launched or ends
\* with a return code other than 0, else the parsed devices
DetectDevices(out) ==
    IF out.raised \/ out.code # 0 THEN <<>> ELSE ParseDeviceOutput(out)

\* _test_clock_stability, line 426: "Clock test passed" in stdout
TestClockStability(out) == out.good

\* _test_tx_path, line 450
TestTxPath(out) == out.code \in AcceptableCodes

\* _test_rx_path, line 482
TestRxPath(out) == out.code \in AcceptableCodes

\* _test_frequency_accuracy, lines 487-496: no external tool
TestFrequencyAccuracy == TRUE

\* (mutant: the return code of a round is not looked at)
GainRoundOk_AnyCode(out) == TRUE

\* _test_gain_control, line 521: one round of the loop passes
GainRoundOk(out) == out.code \in AcceptableCodes

\* _test_gain_control, lines 505-511: the tool of a round of the loop is
\* started with "--gain", str(gain); the step that starts (or fails to
\* start) the tool of the coroutine s
StartStep(e, s) ==
    [SdrStep(e, s.stage, -1)
       EXCEPT !.gain = IF s.stage = "gain" THEN TestGains[s.iter] ELSE -1]

\* _test_gain_control after its loop and clean-up: every round passed
GainControlAfterLoop == "pass"

\* _test_gain_control when a tool of its loop cannot be launched
GainControlExcept == "fail"

\* the verdict of a sub-test on the outcome of its invocation: "pass",
\* "fail", or "raise" when an exception leaves the sub-test
SubTest(stage, out) ==
    IF stage = "gain"
    THEN IF out.raised THEN GainControlExcept ELSE Verdict(GainRoundOk(out))
    ELSE IF out.raised THEN SubTestExcept(stage)
    ELSE IF stage = "hw" THEN Verdict(TestHardwareDetection(out))
    ELSE IF stage = "clock" THEN Verdict(TestClockStability(out))
    ELSE IF stage = "tx" THEN Verdict(TestTxPath(out))
    ELSE Verdict(TestRxPath(out))

Entry(name, ok) == [name |-> name, ok |-> ok]

\* ------------------------------------------- timeouts and capture files
\* The seconds given to the `timeout` command an external tool is wrapped
\* in (lines 183, 254, 281, 334, 418, 437, 461, 507); uhd_find_devices
\* (line 57) and uhd_usrp_probe (line 120) are started without one, and no
\* communicate() is under asyncio.wait_for: 0 stands for no timeout.
Timeout(stage) ==
    IF stage \in {"enum", "hw", "probe"} THEN 0
    ELSE IF stage \in {"smoke", "gain"} THEN 2
    ELSE IF stage \in {"dc", "iq"} THEN 30
    ELSE IF stage = "clock" THEN 10
    ELSE IF stage = "tx" THEN 5
    ELSE 3

\* the invocations given a `--file` in /tmp (lines 190, 341, 468, 514)
CaptureFile(stage) ==
    stage \in {"smoke", "rx", "gain", "freq_900000000", "freq_1800000000",
               "freq_2100000000"}

\* Whether the code reaches its os.remove of the capture file after this
\* invocation: right after communicate() in _test_basic_functionality,
\* _test_frequency and _test_rx_path (lines 197-202, 348-353, 475-480), and
\* after the whole loop in _test_gain_control (lines 524-529), which line
\* 522 leaves before.  A launch that raises goes to the except clause.
RemovesCapture(s, out) ==
    /\ CaptureFile(s.stage)
    /\ ~out.raised
    /\ s.stage = "gain" => out.code \in AcceptableCodes /\ s.iter = Len(TestGains)

\* The log with the attempt to remove the capture file, where there is one;
\* an os.remove that fails is swallowed (`except: pass`).
Cleanup(s, out, log) ==
    IF RemovesCapture(s, out) THEN Append(log, SdrStep("remove", s.stage, -1)) ELSE log

\* --------------------------------------- what one step of a call results in
SdrOutcome(connected, serial, next, e) ==
    [connected |-> connected, serial |-> serial, next |-> next, ev |-> e]

\* The call returns `value`.
SdrReturns(s, connected, value, log, kind) ==
    SdrOutcome(connected, device_serial, SdrIdle, SdrEvent(kind, s.call, value, log))

\* The call goes on to its next external invocation and suspends in
\* create_subprocess_exec.
Invokes(s, stage, iter, results, log, kind) ==
    SdrOutcome(is_connected, device_serial,
               [s EXCEPT !.stage = stage, !.iter = iter, !.phase = "exec",
                         !.results = results, !.log = log],
               SdrEvent(kind, "none", <<>>, <<>>))

\* connect, lines 127-148, after the probe and after the smoke test
ConnectStep(s, out, log, kind) ==
    IF s.stage = "probe"
    THEN IF out.raised \/ ~ProbeOk(out)
         THEN SdrReturns(s, is_connected, FALSE, log, kind)
         ELSE [Invokes(s, "smoke", 1, <<>>, log, kind)
                 EXCEPT !.serial = ParseSerial(out)]
    ELSE IF TestBasicFunctionality(out)
         THEN SdrReturns(s, TRUE, TRUE, log, kind)
         ELSE SdrReturns(s, is_connected, FALSE, log, kind)

\* calibrate, lines 227-242, after each of its external invocations
CalibrateStep(s, out, log, kind) ==
    LET results == Append(s.results, Entry(s.stage, PhaseResult(s.stage, out)))
        n == Len(results)
    IN
    IF n = Len(CalibrationOrder)
    THEN SdrReturns(s, is_connected,
                    CalibrationSuccessful(ResultOf(results, "dc"),
                                          ResultOf(results, "iq"),
                                          AllTestsPassed(results)),
                    log, kind)
    ELSE Invokes(s, CalibrationOrder[n + 1], 1, results, log, kind)

\* test, lines 379-401, after each external invocation of a sub-test
TestStep(s, out, log, kind) ==
    LET r == SubTest(s.stage, out)
        reported == Append(s.results, Entry(TestName(s.stage), r = "pass"))
    IN
    IF r = "raise"
    THEN SdrReturns(s, is_connected, <<Entry("Error", FALSE)>>, log, kind)
    ELSE IF s.stage = "gain"
    THEN IF r = "pass" /\ s.iter < Len(TestGains)
         THEN Invokes(s, "gain", s.iter + 1, s.results, log, kind)
         ELSE IF r = "pass"
         THEN SdrReturns(s, is_connected,
                         Append(s.results,
                                Entry(TestName("gain"), GainControlAfterLoop = "pass")),
                         log, kind)
         ELSE SdrReturns(s, is_connected, reported, log, kind)
    ELSE IF s.stage = "rx"
    THEN Invokes(s, "gain", 1,
                 Append(reported, Entry("Frequency Accuracy", TestFrequencyAccuracy)),
                 log, kind)
    ELSE Invokes(s, TestOrder[Len(reported)], 1, reported, log, kind)

\* detect_devices, lines 63-77, after the enumeration tool
DetectStep(s, out, log, kind) ==
    SdrReturns(s, is_connected, DetectDevices(out), log, kind)

\* the coroutine goes on after an external invocation
SdrStepOf(s, out, log, kind) ==
    IF s.call = "connect" THEN ConnectStep(s, out, Cleanup(s, out, log), kind)
    ELSE IF s.call = "calibrate" THEN CalibrateStep(s, out, Cleanup(s, out, log), kind)
    ELSE IF s.call = "detect" THEN DetectStep(s, out, log, kind)
    ELSE TestStep(s, out, Cleanup(s, out, log), kind)

SdrApply(out) ==
    /\ is_connected' = out.connected
    /\ device_serial' = out.serial
    /\ sdr' = out.next
    /\ sdr_ev' = out.ev
    /\ UNCHANGED <<netVars, genVars>>

\* --------------------------------------------------------------- actions
\* connect is called (main.py 351): lines 116-120, up to the launch of the
\* probe.
ConnectCall(args) ==
    /\ sdr = SdrIdle
    /\ device_args' = IF args # "" THEN args ELSE device_args
    /\ SdrApply(SdrOutcome(is_connected, device_serial,
                           SdrCall("connect", "probe", <<>>),
                           SdrEvent("connect_call", "none", <<>>, <<>>)))

\* detect_devices is called: lines 55-61, up to the launch of the tool.
DetectCall ==
    /\ sdr = SdrIdle
    /\ SdrApply(SdrOutcome(is_connected, device_serial,
                           SdrCall("detect", "enum", <<>>),
                           SdrEvent("detect_call", "none", <<>>, <<>>)))
    /\ UNCHANGED device_args

\* test is called (main.py 375): lines 370-379.
TestCall ==
    /\ sdr = SdrIdle
    /\ LET s == SdrCall("test", TestOrder[1], <<Entry("Connection", is_connected)>>)
       IN  SdrApply(IF TestNotConnected
                    THEN SdrReturns(s, is_connected, s.results, <<>>, "test_call")
                    ELSE SdrOutcome(is_connected, device_serial, s,
                                    SdrEvent("test_call", "none", <<>>, <<>>)))
    /\ UNCHANGED device_args

\* calibrate is called (main.py 403): lines 220-227.
CalibrateCall ==
    /\ sdr = SdrIdle
    /\ LET s == SdrCall("calibrate", CalibrationOrder[1], <<>>)
       IN  SdrApply(IF CalibrateNotConnected
                    THEN SdrReturns(s, is_connected, FALSE, <<>>, "calibrate_call")
                    ELSE SdrOutcome(is_connected, device_serial, s,
                                    SdrEvent("calibrate_call", "none", <<>>, <<>>)))
    /\ UNCHANGED device_args

\* create_subprocess_exec returns: the tool runs and the coroutine suspends
\* in communicate.
ToolLaunched ==
    /\ sdr.phase = "exec"
    /\ SdrApply(SdrOutcome(is_connected, device_serial,
                           [sdr EXCEPT !.phase = "comm",
                                       !.log = Append(@, StartStep("launch", sdr))],
                           SdrEvent("launched", "none", <<>>, <<>>)))
    /\ UNCHANGED device_args

\* create_subprocess_exec raises (the tool is missing).
ToolLaunchFailed ==
    /\ sdr.phase = "exec"
    /\ SdrApply(SdrStepOf(sdr, LaunchRaised,
                          Append(sdr.log, StartStep("launch_failed", sdr)),
                          "launch_failed"))
    /\ UNCHANGED device_args

\* communicate returns: the tool has ended.
ToolExited(code, good) ==
    /\ sdr.phase = "comm"
    /\ SdrApply(SdrStepOf(sdr, Launched(code, good),
                          Append(sdr.log, SdrStep("done", sdr.stage, code)),
                          "tool_exited"))
    /\ UNCHANGED device_args

SdrNext ==
    \/ \E args \in ArgsGiven : ConnectCall(args)
    \/ DetectCall
    \/ TestCall
    \/ CalibrateCall
    \/ ToolLaunched
    \/ ToolLaunchFailed
    \/ \E code \in ExitCodes, good \in BOOLEAN : ToolExited(code, good)

SdrSpec == Init /\ [][SdrNext]_vars

\* ================================================= configuration generator
\* (NetworkManager.generate_config and its helpers, network_manager.py
\* 50-214).  A Python str is a sequence of one-character strings, so that
\* len(), concatenation, padding and int() are what they are in the code.
DigitChars == <<"0", "1", "2", "3", "4", "5", "6", "7", "8", "9">>

IsDigit(c) == \E d \in 1..10 : DigitChars[d] = c

DigitValue(c) == (CHOOSE d \in 1..10 : DigitChars[d] = c) - 1

\* int(s) raises ValueError unless s is a decimal literal; of the strings
\* used below those are the non-empty strings of digits
IsNumeric(str) == Len(str) > 0 /\ \A i \in 1..Len(str) : IsDigit(str[i])

RECURSIVE ToInt(_)
\* int(s), for a string of digits
ToInt(str) ==
    IF Len(str) = 0 THEN 0
    ELSE ToInt(SubSeq(str, 1, Len(str) - 1)) * 10 + DigitValue(str[Len(str)])

RECURSIVE Str(_)
\* str(n), for n >= 0
Str(n) ==
    IF n < 10 THEN <<DigitChars[n + 1]>>
    ELSE Str(n \div 10) \o <<DigitChars[(n % 10) + 1]>>

\* s.lower(), for the letters used below
Lower(str) ==
    [i \in 1..Len(str) |->
        IF str[i] = "A" THEN "a" ELSE IF str[i] = "B" THEN "b" ELSE str[i]]

\* f"{mnc:0>2}": padded on the left with "0" to a width of 2
PadLeft2(str) ==
    IF Len(str) = 0 THEN <<"0", "0">>
    ELSE IF Len(str) = 1 THEN <<"0">> \o str
    ELSE str

Auto == <<"a", "u", "t", "o">>

\* the arguments generate_config is called with
Mccs == {<<"4", "5", "6">>, <<"4", "x", "6">>}

Mncs == {<<"6">>, <<"0", "6">>, <<"7">>, <<"1", "2", "3">>, <<"x">>}

CellIds == {Auto, <<"1", "2">>, <<"c", "1">>}

Lacs == {Auto, <<"A", "u", "t", "o">>, <<"7", "7">>}

Bands == {<<"3">>, <<"2", "0">>, <<"7">>, <<"B", "3">>}

\* int(hashlib.md5(s.encode()).hexdigest()[:4], 16), lines 140-141, for the
\* strings _generate_cell_id hashes here
Md5Hex4(s) ==
    CASE s = <<"4", "5", "6", "6">> -> 34326
      [] s = <<"4", "5", "6", "0", "6">> -> 47929
      [] s = <<"4", "5", "6", "7">> -> 25954
      [] s = <<"4", "5", "6", "1", "2", "3">> -> 55652

\* int(hashlib.md5(s.encode()).hexdigest()[:3], 16), lines 150-151, for the
\* strings _generate_lac hashes here
Md5Hex3(s) ==
    CASE s = <<"4", "5", "6", "6", "l", "a", "c">> -> 2394
      [] s = <<"4", "5", "6", "0", "6", "l", "a", "c">> -> 1975
      [] s = <<"4", "5", "6", "7", "l", "a", "c">> -> 882
      [] s = <<"4", "5", "6", "1", "2", "3", "l", "a", "c">> -> 3021

\* (mutant: the offset counts up after the first derivation)
GenerateCellId_Counting(mcc, mnc) ==
    Str(ToInt(mcc) * 1000 + ToInt(mnc) * 100
        + (IF remembered.called THEN 101 ELSE 100))

\* _generate_cell_id, lines 134-142 (for numeric mcc and mnc)
GenerateCellId(mcc, mnc) ==
    Str(ToInt(mcc) * 1000 + ToInt(mnc) * 100 + (Md5Hex4(mcc \o mnc) % 900) + 100)

\* _generate_lac, lines 144-152 (for numeric mcc and mnc)
GenerateLac(mcc, mnc) ==
    Str(ToInt(mcc) * 10 + ToInt(mnc) + (Md5Hex3(mcc \o mnc \o <<"l", "a", "c">>) % 500) + 1000)

\* _get_frequency_config, lines 157-178: band_configs
BandConfigs(band) ==
    CASE band = <<"1">> ->
           [dl_earfcn |-> 300, ul_earfcn |-> 18300, center_freq |-> 2140000000]
      [] band = <<"3">> ->
           [dl_earfcn |-> 1200, ul_earfcn |-> 19200, center_freq |-> 1842500000]
      [] band = <<"8">> ->
           [dl_earfcn |-> 3450, ul_earfcn |-> 21450, center_freq |-> 942500000]
      [] band = <<"2", "0">> ->
           [dl_earfcn |-> 6150, ul_earfcn |-> 24150, center_freq |-> 791000000]

BandKeys == {<<"1">>, <<"3">>, <<"8">>, <<"2", "0">>}

\* _get_frequency_config, line 180: band_configs.get(band, band_configs["3"])
GetFrequencyConfig(band) ==
    IF band \in BandKeys THEN BandConfigs(band) ELSE BandConfigs(<<"3">>)

\* the keys of `operators` and `short_names`, lines 185-194 and 202-211
OperatorPlmns ==
    {<<"4", "5", "6", "0", d>> : d \in {"1", "2", "3", "4", "5", "6", "8", "9"}}

Operators(plmn) ==
    IF plmn[5] = "1" THEN <<"Cellcard">>
    ELSE IF plmn[5] \in {"2", "5"} THEN <<"Smart Mobile">>
    ELSE IF plmn[5] \in {"3", "4"} THEN <<"qb">>
    ELSE IF plmn[5] = "6" THEN <<"Smart Axiata">>
    ELSE <<"Metfone">>

ShortNames(plmn) ==
    IF plmn[5] = "1" THEN <<"Cellcard">>
    ELSE IF plmn[5] \in {"2", "5", "6"} THEN <<"Smart">>
    ELSE IF plmn[5] \in {"3", "4"} THEN <<"qb">>
    ELSE <<"Metfone">>

\* _get_operator_name, lines 196-197
GetOperatorName(mcc, mnc) ==
    LET plmn == mcc \o PadLeft2(mnc)
    IN  IF plmn \in OperatorPlmns THEN Operators(plmn) ELSE <<"Operator ">> \o plmn

\* _get_operator_short_name, lines 213-214
GetOperatorShortName(mcc, mnc) ==
    LET plmn == mcc \o PadLeft2(mnc)
    IN  IF plmn \in OperatorPlmns THEN ShortNames(plmn) ELSE <<"Op">> \o plmn

\* generate_config, lines 68 and 71: `not x or x.lower() == "auto"`
IsAuto(str) == Len(str) = 0 \/ Lower(str) = Auto

\* generate_config, line 82: the format code `02d` applied to the str mnc
\* raises ValueError, so the branch for a two-character mnc has no value
PlmnIdRaises(mnc) == Len(mnc) = 2

\* generate_config, line 82, where it has a value: f"{mcc}{mnc}"
PlmnId(mcc, mnc) == mcc \o mnc

\* The first line of generate_config that raises, or "none": the derivations
\* of lines 69 and 72 (int(mcc), int(mnc) in lines 138 and 148), then the
\* dict of lines 78-119 in the order it is evaluated.
Raises(mcc, mnc, cell_id, lac, band) ==
    IF ~IsNumeric(mcc) /\ (IsAuto(cell_id) \/ IsAuto(lac)) THEN "derive_mcc"
    ELSE IF ~IsNumeric(mnc) /\ (IsAuto(cell_id) \/ IsAuto(lac)) THEN "derive_mnc"
    ELSE IF ~IsNumeric(mcc) THEN "mcc"
    ELSE IF ~IsNumeric(mnc) THEN "mnc"
    ELSE IF PlmnIdRaises(mnc) THEN "plmn_id"
    ELSE IF ~IsAuto(cell_id) /\ ~IsNumeric(cell_id) THEN "cell_id"
    ELSE IF ~IsAuto(lac) /\ ~IsNumeric(lac) THEN "lac"
    ELSE IF ~IsNumeric(band) THEN "band"
    ELSE "none"

\* the values derived in lines 69 and 72, <<>> where none is derived (the
\* argument is not "auto", or the derivation raised)
DerivedCellId(mcc, mnc, cell_id) ==
    IF IsAuto(cell_id) /\ IsNumeric(mcc) /\ IsNumeric(mnc)
    THEN GenerateCellId(mcc, mnc) ELSE <<>>

DerivedLac(mcc, mnc, cell_id, lac) ==
    IF IsAuto(lac) /\ IsNumeric(mcc) /\ IsNumeric(mnc)
    THEN GenerateLac(mcc, mnc) ELSE <<>>

\* generate_config, lines 78-119: the dict (left out: generated_at, a clock
\* reading, and the fields that are literals in the code but for the radio
\* parameters)
Config(mcc, mnc, cell_id, lac, band) ==
    LET cell == IF IsAuto(cell_id) THEN GenerateCellId(mcc, mnc) ELSE cell_id
        area == IF IsAuto(lac) THEN GenerateLac(mcc, mnc) ELSE lac
        freq_config == GetFrequencyConfig(band)
    IN  [mcc |-> ToInt(mcc), mnc |-> ToInt(mnc), plmn_id |-> PlmnId(mcc, mnc),
         cell_id |-> ToInt(cell), lac |-> ToInt(area), tac |-> ToInt(area),
         band |-> ToInt(band),
         dl_earfcn |-> freq_config.dl_earfcn,
         ul_earfcn |-> freq_config.ul_earfcn,
         center_freq |-> freq_config.center_freq,
         tx_gain |-> 50, rx_gain |-> 40, bandwidth |-> 20, n_prb |-> 100,
         network_name |-> GetOperatorName(mcc, mnc),
         short_network_name |-> GetOperatorShortName(mcc, mnc)]

\* One generate_config call: its arguments, the values it derived, whether
\* it returned a configuration (ok) or raised, where it raised, and the
\* configuration.
Generated(mcc, mnc, cell_id, lac, band, saveOk) ==
    LET where == Raises(mcc, mnc, cell_id, lac, band)
    IN  [called |-> TRUE, mcc |-> mcc, mnc |-> mnc, cell_id |-> cell_id,
         lac |-> lac, band |-> band,
         cell_derived |-> DerivedCellId(mcc, mnc, cell_id),
         lac_derived |-> DerivedLac(mcc, mnc, cell_id, lac),
         ok |-> where = "none" /\ saveOk,
         error |-> IF where = "none" /\ ~saveOk THEN "save" ELSE where,
         config |-> IF where = "none"
                    THEN Config(mcc, mnc, cell_id, lac, band) ELSE <<>>]

\* What is remembered of a call: which (mcc, mnc) it derived from, for
\* which band, and what it derived.
Derivation(g) ==
    [called |-> TRUE, mcc |-> g.mcc, mnc |-> g.mnc, band |-> g.band,
     cell_derived |-> g.cell_derived, lac_derived |-> g.lac_derived]

\* The _generate_config handler calls generate_config (main.py 243).  Button
\* handlers are awaited one at a time (main.py 204-232) and nothing in
\* generate_config suspends: the coroutines it awaits write files and
\* return.  Line 122 stores the configuration before _save_config, which
\* may raise (lines 232-234).
GenerateConfig(mcc, mnc, cell_id, lac, band, saveOk) ==
    LET g == Generated(mcc, mnc, cell_id, lac, band, saveOk)
    IN  /\ ~gen.called
        /\ Raises(mcc, mnc, cell_id, lac, band) # "none" => saveOk
        /\ gen' = g
        /\ current_config' = IF g.error \in {"none", "save"} THEN g.config
                             ELSE current_config
        /\ remembered' = IF /\ ~remembered.called
                            /\ g.cell_derived # <<>> /\ g.lac_derived # <<>>
                         THEN Derivation(g) ELSE remembered
        /\ UNCHANGED <<is_running, epc_process, enb_process, procs, workers, ev>>
        /\ UNCHANGED sdrVars

\* The handler notifies the outcome and ends (main.py 247-252).
ConfigNotified ==
    /\ gen.called
    /\ gen' = NoCall
    /\ UNCHANGED <<netVars, sdrVars, remembered>>

GenNext ==
    \/ \E mcc \in Mccs, mnc \in Mncs, cell_id \in CellIds, lac \in Lacs,
          band \in Bands, saveOk \in BOOLEAN :
          GenerateConfig(mcc, mnc, cell_id, lac, band, saveOk)
    \/ ConfigNotified

GenSpec == Init /\ [][GenNext]_vars

\* ================================================================ claims
\* The steps of every call: those in flight, and the one that has just
\* returned or has just sent a signal.
Names(tr) == [i \in 1..Len(tr) |-> tr[i].e]

Prefix(tr, n) == SubSeq(Names(tr), 1, IF Len(tr) < n THEN Len(tr) ELSE n)

Traces == {w.trace : w \in InFlight} \cup {ev.trace}

\* the coroutines in flight, without the history they carry
Coroutines ==
    LET plain(w) == [w EXCEPT !.stop_seen = FALSE]
    IN  BagOfAll(plain, workers)

Orchestrator == <<is_running, current_config, epc_process, enb_process, procs, Coroutines>>

\* C1: at most one start_network/stop_network execution is in flight at a
\* time; a call that arrives while another has not returned is rejected or
\* deferred, never interleaved with it.
C1_OneCallInFlight == BagCardinality(workers) <= 1

\* C2: in every reachable state is_running implies that both process
\* handles are set.
C2_RunningHasBothHandles ==
    is_running => epc_process # NoProc /\ enb_process # NoProc

\* C3: start_network called while is_running returns failure and changes
\* nothing: is_running, both handles, current_config and the processes keep
\* their values, no configuration file is written, no signal is sent and no
\* coroutine stays in flight for the call.
C3_StartWhileRunningRejected ==
    [][(is_running /\ ev'.kind = "start_call")
         => /\ ev'.result = "false"
            /\ ~ev'.wrote
            /\ ev'.sig = "none"
            /\ UNCHANGED Orchestrator]_vars

C3_Witness == is_running /\ ev.kind = "start_call" /\ ev.result = "false"

\* C4: when the core-network process was spawned and the spawn of the
\* base-station process then fails, start_network returns failure with
\* is_running false and both handles cleared, and the core-network process
\* it spawned has exited by then.
C4_EnbSpawnFailureRollsBack ==
    (ev.call = "start" /\ In(ev.trace, "spawn_epc") /\ In(ev.trace, "enb_spawn_failed"))
      => /\ ev.result = "false"
         /\ ~is_running
         /\ epc_process = NoProc
         /\ enb_process = NoProc
         /\ \A i \in 1..Len(ev.trace) :
               ev.trace[i].e = "spawn_epc" => Exited(ev.trace[i].p)

\* C5: when the health check fails, the stop sequence has run on every
\* process this start_network spawned before it returns; it returns failure
\* with is_running false, both handles cleared and none of the processes it
\* spawned alive.
C5_VerificationFailureRollsBack ==
    (ev.call = "start" /\ In(ev.trace, "verify_failed"))
      => /\ ev.result = "false"
         /\ ~is_running
         /\ epc_process = NoProc
         /\ enb_process = NoProc
         /\ \A i \in 1..Len(ev.trace) :
               ev.trace[i].e \in {"spawn_epc", "spawn_enb"} => Exited(ev.trace[i].p)

\* C6: stop_network called while the network is stopped (is_running false,
\* both handles None) returns success, sends no signal and changes nothing.
C6_StopWhileStoppedIsNoOp ==
    [][(~is_running /\ epc_process = NoProc /\ enb_process = NoProc
          /\ ev'.kind = "stop_call")
         => /\ ev'.result = "true"
            /\ ev'.sig = "none"
            /\ UNCHANGED Orchestrator]_vars

C6_Witness ==
    /\ ev.kind = "stop_call"
    /\ ev.result = "true"
    /\ ev.trace = <<Step("enb_stopped", NoProc), Step("epc_stopped", NoProc)>>
    /\ ~is_running

StartOrder == <<"spawn_epc", "delay", "spawn_enb", "delay", "verify">>

DelaysElapsed(tr) == \A i \in 1..Len(tr) : tr[i].e = "delay" => tr[i].p = SettleDelay

\* C7 as stated: every execution of start_network that reaches the health
\* check has written the configuration files, spawned the core-network
\* process, waited the settle delay, spawned the base-station process and
\* waited the settle delay again, in this order.
C7_ConfigWrittenThenOrdered ==
    \A tr \in Traces :
       In(tr, "verify")
         => Prefix(tr, 6) = <<"save_config">> \o StartOrder /\ DelaysElapsed(tr)

\* C7, amended: every execution of start_network that reaches the health
\* check has first written the configuration files if it was given a
\* non-empty configuration (and has written none if the configuration was
\* empty), and has then spawned the core-network process, waited the settle
\* delay, spawned the base-station process and waited the settle delay
\* again, in this order.
C7_StartOrdered ==
    \A tr \in Traces :
       In(tr, "verify")
         => /\ Prefix(tr, 1) \in {<<"save_config">>, <<"no_config">>}
            /\ SubSeq(Names(tr), 2, 6) = StartOrder
            /\ DelaysElapsed(tr)

C7_Witness ==
    /\ ev.call = "start"
    /\ ev.result = "true"
    /\ Prefix(ev.trace, 6) = <<"save_config">> \o StartOrder

C9_KillOnlyAfterGracePeriod ==
    [][\A p \in 1..Len(procs) :
          (procs'[p].state = "killed" /\ procs[p].state # "killed")
            => /\ procs[p].state = "terminating"
               /\ \E w \in InFlight :
                     w.pc = "wait_term" /\ w.process = p /\ w.timer = GracePeriod]_vars

C9_Witness == \E p \in 1..Len(procs) : procs[p].state = "killed"

\* C10: the stop of a process that does not exit within the grace period
\* sends the kill and returns only after the process has been reaped: a
\* worker past the timeout waits for a killed process, and whenever an
\* awaited _stop_process returns, its process has an exit status.
C10_KilledProcessIsReaped ==
    /\ \A w \in InFlight :
          w.pc = "wait_kill" => procs[w.process].state \in {"killed", "exited"}
    /\ ev.stopped # NoProc => Exited(ev.stopped)

C10_Witness == ev.kind = "wait_kill_done" /\ ev.stopped # NoProc

\* C11: every stop_network call returns, and when it returns the network is
\* stopped: is_running is false and both process handles are None.
C11_StopReturnsStopped ==
    ev.call = "stop"
      => ~is_running /\ epc_process = NoProc /\ enb_process = NoProc

\* C12: the log file opened for a supervised process is closed at the point
\* the process is confirmed exited: whenever an awaited _stop_process returns
\* for a process its log has been closed, and when stop_network returns no
\* log of a spawned process is still open.
C12_LogClosedOnExit ==
    /\ ev.stopped # NoProc => procs[ev.stopped].log_closed
    /\ ev.call = "stop" => \A p \in 1..Len(procs) : procs[p].log_closed

\* C13: when stop_network was called while a start_network was in progress,
\* then once both have returned the network is stopped.  Here for the
\* start_network that returns last: at its return, with no stop_network in
\* flight any more, is_running is false, both handles are None and no
\* process this start_network spawned is alive.
C13_StopDuringStartWins ==
    [][\A w \in InFlight :
          (/\ w.call = "start" /\ w.stop_seen
           /\ ev'.call = "start" /\ workers' = Others(w)
           /\ \A v \in BagToSet(workers') : v.call # "stop")
            => /\ ~is_running'
               /\ epc_process' = NoProc
               /\ enb_process' = NoProc
               /\ \A i \in 1..Len(ev'.trace) :
                     ev'.trace[i].e \in {"spawn_epc", "spawn_enb"}
                       => procs'[ev'.trace[i].p].state = "exited"]_vars

Did(log, e, stage) == \E i \in 1..Len(log) : log[i].e = e /\ log[i].stage = stage

Attempted(log, stage) == Did(log, "launch", stage) \/ Did(log, "launch_failed", stage)

\* every invocation of `stage` in the log was launched and ended with an
\* acceptable return code, and there is one
Succeeded(log, stage) ==
    /\ Did(log, "done", stage)
    /\ \A i \in 1..Len(log) :
          log[i].stage = stage => log[i].e # "launch_failed"
                                  /\ (log[i].e = "done" => log[i].code \in {0, 124})

Reported(value, name) == \E i \in 1..Len(value) : value[i].name = name

\* C15: after a connect call has returned the session is connected if and
\* only if this call's probe ended with return code 0 and this call's smoke
\* test ended with a return code in {0, 124}.
C15_ConnectedIffProbeAndSmoke ==
    sdr_ev.call = "connect"
      => (is_connected
            <=> /\ \E i \in 1..Len(sdr_ev.log) :
                      /\ sdr_ev.log[i] = SdrStep("done", "probe", 0)
                /\ Succeeded(sdr_ev.log, "smoke"))

SixTests == {"Hardware Detection", "Clock Stability", "TX Path", "RX Path",
             "Frequency Accuracy", "Gain Control"}

\* C16: test() on a connected session returns an entry for each of the six
\* named tests whatever the sub-tests do, a tool that cannot be launched
\* included; every sub-test that uses a tool has tried to launch it.
C16_AllSixReported ==
    (sdr_ev.call = "test" /\ is_connected)
      => /\ \A n \in SixTests : Reported(sdr_ev.value, n)
         /\ \A st \in {"hw", "clock", "tx", "rx", "gain"} : Attempted(sdr_ev.log, st)

C16_Witness ==
    /\ sdr_ev.call = "test"
    /\ is_connected
    /\ Did(sdr_ev.log, "launch_failed", "hw")
    /\ sdr_ev.log[Len(sdr_ev.log)] = StartStep("launch_failed", SdrCall("test", "gain", <<>>))
    /\ \E i \in 1..Len(sdr_ev.log) : sdr_ev.log[i] = SdrStep("done", "tx", 1)
    /\ Reported(sdr_ev.value, "Gain Control")

\* C17: test() on a session that is not connected runs no test and starts
\* no external tool; it returns the single entry Connection = false and
\* leaves the session as it was.
C17_TestNeedsConnection ==
    [][(~is_connected /\ sdr_ev'.kind = "test_call")
         => /\ sdr_ev'.call = "test"
            /\ sdr_ev'.value = <<[name |-> "Connection", ok |-> FALSE]>>
            /\ sdr_ev'.log = <<>>
            /\ sdr' = SdrIdle
            /\ UNCHANGED <<is_connected, device_args, device_serial>>]_vars

C17_Witness ==
    /\ ~is_connected
    /\ sdr_ev.kind = "test_call"
    /\ sdr_ev.call = "test"
    /\ device_serial # "None"

\* C18: calibrate() on a connected session runs its three phases (DC
\* offset, IQ imbalance, frequency sweep over the three frequencies) whatever
\* the earlier phases gave, and returns true exactly when all of them
\* succeeded.
C18_AllPhasesRunAndAggregate ==
    (sdr_ev.call = "calibrate" /\ is_connected)
      => /\ \A st \in {"dc", "iq", "freq_900000000", "freq_1800000000",
                       "freq_2100000000"} : Attempted(sdr_ev.log, st)
         /\ sdr_ev.value
              = (/\ Succeeded(sdr_ev.log, "dc")
                 /\ Succeeded(sdr_ev.log, "iq")
                 /\ Succeeded(sdr_ev.log, "freq_900000000")
                 /\ Succeeded(sdr_ev.log, "freq_1800000000")
                 /\ Succeeded(sdr_ev.log, "freq_2100000000"))

C18_Witness ==
    /\ sdr_ev.call = "calibrate"
    /\ is_connected
    /\ sdr_ev.value = FALSE
    /\ Did(sdr_ev.log, "launch_failed", "dc")
    /\ Succeeded(sdr_ev.log, "iq")
    /\ Succeeded(sdr_ev.log, "freq_2100000000")

Starts(log) == SelectSeq(log, LAMBDA st : st.e \in {"launch", "launch_failed"})

PhaseOrder == <<"dc", "iq", "freq_900000000", "freq_1800000000", "freq_2100000000">>

\* a calibrate run so far: its invocations were started in the fixed order,
\* each one only after the one before it had ended
Sequential(log) ==
    /\ Len(Starts(log)) <= Len(PhaseOrder)
    /\ \A i \in 1..Len(Starts(log)) : Starts(log)[i].stage = PhaseOrder[i]
    /\ \A i \in 2..Len(log) :
          log[i].e \in {"launch", "launch_failed"} => log[i - 1].e # "launch"

\* C19: in every calibrate() run the phases execute one after the other in
\* the order DC offset, IQ imbalance, frequency sweep, whatever their
\* results: an invocation starts only after the one before it has ended.
C19_PhasesInFixedOrder ==
    /\ sdr.call = "calibrate" => Sequential(sdr.log)
    /\ sdr_ev.call = "calibrate" => Sequential(sdr_ev.log)

C19_Witness ==
    /\ sdr_ev.call = "calibrate"
    /\ Len(Starts(sdr_ev.log)) = Len(PhaseOrder)
    /\ \E i \in 1..Len(sdr_ev.log) : sdr_ev.log[i] = SdrStep("done", "iq", 1)
    /\ Did(sdr_ev.log, "launch_failed", "freq_900000000")

\* C20: calibrate() on a session that is not connected returns false, runs
\* no phase, starts no external tool and leaves the session as it was.
C20_CalibrateNeedsConnection ==
    [][(~is_connected /\ sdr_ev'.kind = "calibrate_call")
         => /\ sdr_ev'.call = "calibrate"
            /\ sdr_ev'.value = FALSE
            /\ sdr_ev'.log = <<>>
            /\ sdr' = SdrIdle
            /\ UNCHANGED <<is_connected, device_args, device_serial>>]_vars

C20_Witness ==
    /\ ~is_connected
    /\ sdr_ev.kind = "calibrate_call"
    /\ sdr_ev.call = "calibrate"
    /\ sdr_ev.value = FALSE

\* C21: every device operation whose tool writes a capture file (smoke
\* test, RX path test, single-frequency test, gain-control test) tries to
\* delete that file on every exit path: in a call that has returned, every
\* launch or failed launch of such a tool is followed by an attempt to
\* remove its file.
C21_CaptureFileAlwaysRemoved ==
    sdr_ev.call # "none"
      => \A i \in 1..Len(sdr_ev.log) :
            (/\ sdr_ev.log[i].e \in {"launch", "launch_failed"}
             /\ sdr_ev.log[i].stage \in {"smoke", "rx", "gain", "freq_900000000",
                                         "freq_1800000000", "freq_2100000000"})
              => \E j \in (i + 1)..Len(sdr_ev.log) :
                    sdr_ev.log[j] = SdrStep("remove", sdr_ev.log[i].stage, -1)

\* C22: every external tool invocation is bounded by a timeout: no call is
\* ever suspended in communicate() on a tool that has no timeout, so no call
\* waits for ever on a tool that does not exit.
C22_EveryInvocationBounded ==
    sdr.phase = "comm" => Timeout(sdr.stage) > 0

\* C23: detect_devices never fails to its caller: it returns the empty list
\* when the enumeration tool cannot be launched, ends with a return code
\* other than 0 or lists no device, and no step of it changes device_args,
\* device_serial or is_connected.
C23_DetectNeverFails ==
    [][(sdr.call = "detect" \/ sdr'.call = "detect")
         => /\ UNCHANGED <<device_args, device_serial, is_connected>>
            /\ sdr_ev'.call = "detect"
                 => /\ sdr'.call = "none"
                    /\ sdr_ev'.value \in {<<>>, <<[type |-> "b200"]>>}
                    /\ (\E i \in 1..Len(sdr_ev'.log) :
                           \/ sdr_ev'.log[i].e = "launch_failed"
                           \/ sdr_ev'.log[i].e = "done" /\ sdr_ev'.log[i].code # 0)
                         => sdr_ev'.value = <<>>]_vars

C23_Witness ==
    /\ sdr_ev.call = "detect"
    /\ sdr_ev.value = <<>>
    /\ is_connected
    /\ sdr_ev.log[Len(sdr_ev.log)] = SdrStep("done", "enum", 124)

\* the steps of the gain loop in a log, and the starts among them
GainLog(log) == SelectSeq(log, LAMBDA st : st.stage = "gain" /\ st.e # "remove")

GainStarts(log) ==
    SelectSeq(log, LAMBDA st : st.stage = "gain" /\ st.e \in {"launch", "launch_failed"})

\* the rounds of the gain loop so far were started with the gains 0, 25, 50,
\* 75 in that order, each one only after the round before it had ended with
\* a return code in {0, 124}
GainLoopInOrder(log) ==
    /\ Len(GainStarts(log)) <= 4
    /\ \A i \in 1..Len(GainStarts(log)) : GainStarts(log)[i].gain = <<0, 25, 50, 75>>[i]
    /\ \A i \in 2..Len(GainLog(log)) :
          GainLog(log)[i].e \in {"launch", "launch_failed"}
            => /\ GainLog(log)[i - 1].e = "done"
               /\ GainLog(log)[i - 1].code \in {0, 124}

GainRoundFailed(log) ==
    \E i \in 1..Len(log) :
       log[i].stage = "gain" /\ log[i].e = "done" /\ log[i].code \notin {0, 124}

\* C34: the gain-control test runs its rounds one after the other over the
\* gains 0, 25, 50, 75 in that order; no round is started after a round that
\* ended with a return code outside {0, 124}, and test() then reports Gain
\* Control as failed.
C34_GainLoopStopsAtFailure ==
    /\ sdr.call = "test" => GainLoopInOrder(sdr.log)
    /\ sdr_ev.call = "test"
         => /\ GainLoopInOrder(sdr_ev.log)
            /\ GainRoundFailed(sdr_ev.log)
                 => \E i \in 1..Len(sdr_ev.value) :
                       sdr_ev.value[i] = Entry("Gain Control", FALSE)

\* test() returned after the rounds with gain 0 and 25 passed and the round
\* with gain 50 ended with return code 1
C34_Witness ==
    /\ sdr_ev.call = "test"
    /\ Len(GainStarts(sdr_ev.log)) = 3
    /\ Len(GainLog(sdr_ev.log)) = 6
    /\ GainLog(sdr_ev.log)[2].code = 0
    /\ GainLog(sdr_ev.log)[4].code = 124
    /\ GainLog(sdr_ev.log)[5].gain = 50
    /\ GainLog(sdr_ev.log)[6] = SdrStep("done", "gain", 1)
    /\ \E i \in 1..Len(sdr_ev.value) : sdr_ev.value[i] = Entry("Gain Control", FALSE)

\* the frequencies of the sweep, 900 MHz, 1800 MHz and 2100 MHz
SweepOrder == <<"freq_900000000", "freq_1800000000", "freq_2100000000">>

SweepStarts(log) ==
    SelectSeq(log, LAMBDA st : /\ st.e \in {"launch", "launch_failed"}
                               /\ st.stage \notin {"dc", "iq"})

\* C35: the frequency sweep of a calibrate() run tests 900 MHz, 1800 MHz and
\* 2100 MHz in that order, all three also when an earlier one failed, and
\* it succeeds if and only if each of the three tests ended with a return
\* code in {0, 124}: with both calibrations passed, calibrate() returns
\* True exactly then.
C35_SweepTestsAllFrequencies ==
    (sdr_ev.call = "calibrate" /\ sdr_ev.log # <<>>)
      => /\ [i \in 1..Len(SweepStarts(sdr_ev.log)) |-> SweepStarts(sdr_ev.log)[i].stage]
              = SweepOrder
         /\ (Succeeded(sdr_ev.log, "dc") /\ Succeeded(sdr_ev.log, "iq"))
              => (sdr_ev.value
                    <=> \A i \in 1..3 : Succeeded(sdr_ev.log, SweepOrder[i]))

\* a calibrate() run whose 900 MHz test ended with return code 1 went on to
\* test 1800 MHz and 2100 MHz, which passed, and returned False
C35_Witness ==
    /\ sdr_ev.call = "calibrate"
    /\ Succeeded(sdr_ev.log, "dc") /\ Succeeded(sdr_ev.log, "iq")
    /\ \E i \in 1..Len(sdr_ev.log) : sdr_ev.log[i] = SdrStep("done", "freq_900000000", 1)
    /\ Succeeded(sdr_ev.log, "freq_1800000000")
    /\ Succeeded(sdr_ev.log, "freq_2100000000")
    /\ sdr_ev.value = FALSE

\* C30: the health check succeeds only if both processes are alive at the
\* moment of the check: whenever start_network returns True (it has just
\* verified and set is_running), both handles are set and neither process
\* has an exit status.
C30_VerifiedMeansBothAlive ==
    (ev.call = "start" /\ ev.result = "true")
      => /\ is_running
         /\ epc_process # NoProc /\ ~Exited(epc_process)
         /\ enb_process # NoProc /\ ~Exited(enb_process)

\* C31: the outcome of the health check depends on process liveness only:
\* when the check runs with both processes alive, start_network returns True
\* and sets is_running, sends no signal and keeps both handles, whether a
\* process log is missing, unreadable, empty or has "ERROR"/"FATAL" in it;
\* the scan comes to a warning at most.
C31_LogsNeverFailVerification ==
    [][(ev'.kind = "sleep2_done" /\ Alive(epc_process) /\ Alive(enb_process))
       => /\ ev'.logs # <<>>
          /\ ev'.logs[3] \in {"quiet", "warning"}
          /\ ev'.call = "start" /\ ev'.result = "true"
          /\ is_running'
          /\ procs' = procs
          /\ epc_process' = epc_process /\ enb_process' = enb_process]_vars

\* a health check that found markers in one log and could not read the
\* other returned True with both processes alive
C31_Witness ==
    /\ ev.kind = "sleep2_done" /\ ev.call = "start" /\ ev.result = "true"
    /\ ev.logs = <<"errors", "unreadable", "warning">>
    /\ is_running
    /\ Alive(epc_process) /\ Alive(enb_process)

\* C32: a handle is cleared only after the process it refers to is
\* confirmed exited: whenever a step sets a handle that was set to None, the
\* process the handle referred to has an exit status.
C32_HandleClearedOnlyWhenExited ==
    [][/\ (epc_process # NoProc /\ epc_process' = NoProc)
          => procs'[epc_process].state = "exited"
       /\ (enb_process # NoProc /\ enb_process' = NoProc)
          => procs'[enb_process].state = "exited"]_vars

\* C33: if writing the configuration files fails in start_network, the
\* start is abandoned before any process is spawned: when that call returns
\* it has spawned nothing, it returns False, is_running is false and both
\* handles are None.
C33_SaveFailureAbandonsStart ==
    (ev.call = "start" /\ In(ev.trace, "save_failed"))
    => /\ ev.result = "false"
       /\ ~In(ev.trace, "spawn_epc") /\ ~In(ev.trace, "spawn_enb")
       /\ ~is_running
       /\ epc_process = NoProc /\ enb_process = NoProc

\* the spawned processes of a kind that have no exit status
AliveOfKind(ps, k) == {p \in 1..Len(ps) : ps[p].kind = k /\ ps[p].state # "exited"}

\* C36: under any interleaving of start_network and stop_network calls a
\* handle is never overwritten by a newly spawned process while the process
\* it referred to is alive; at most one core-network process and one
\* base-station process are alive at any time, and every alive process is
\* the one a handle refers to.
C36_NoLiveProcessLosesItsHandle ==
    [][/\ (epc_process # NoProc /\ epc_process' \notin {NoProc, epc_process})
          => Exited(epc_process)
       /\ (enb_process # NoProc /\ enb_process' \notin {NoProc, enb_process})
          => Exited(enb_process)
       /\ Cardinality(AliveOfKind(procs', "epc")) <= 1
       /\ Cardinality(AliveOfKind(procs', "enb")) <= 1
       /\ AliveOfKind(procs', "epc") \subseteq {epc_process'}
       /\ AliveOfKind(procs', "enb") \subseteq {enb_process'}]_vars

\* the step ends a stop_network run at lines 516-520 (called directly, or by
\* start_network at line 391 or 396)
StopNetworkEnds ==
    /\ ev'.call \in {"start", "stop"}
    /\ ev'.trace # <<>>
    /\ ev'.trace[Len(ev'.trace)].e = "epc_stopped"

\* C37: is_running goes from true to false only in stop_network.  The exit
\* of a supervised process does not change it; while it is true,
\* get_network_status reports is_running = true together with an alive flag
\* that is false for a process that has exited, and every start_network call
\* is rejected and leaves it true.
C37_OnlyStopClearsRunning ==
    [][/\ (is_running /\ ~is_running') => StopNetworkEnds
       /\ (is_running /\ procs' # procs /\ ev'.kind = "none") => is_running'
       /\ (is_running /\ ev'.kind = "status")
          => /\ ev'.status.is_running
             /\ (epc_process # NoProc /\ Exited(epc_process))
                   => ~ev'.status.epc_running
             /\ (enb_process # NoProc /\ Exited(enb_process))
                   => ~ev'.status.enb_running
       /\ (is_running /\ ev'.kind = "start_call")
          => ev'.call = "start" /\ ev'.result = "false" /\ is_running']_vars

\* with no call in flight the base-station process of a running network has
\* exited; the status reports is_running with enb_running false
C37_Witness ==
    /\ workers = EmptyBag
    /\ is_running
    /\ Alive(epc_process)
    /\ enb_process # NoProc /\ Exited(enb_process)
    /\ ev.kind = "status"
    /\ ev.status.is_running /\ ev.status.epc_running /\ ~ev.status.enb_running

\* ------------------------------------------------ generate_config claims
\* the running handler's call returned a configuration
Returned == gen.called /\ gen.ok

\* the dict of lines 78-119 was built (the call returned, or raised only
\* in _save_config)
Built == gen.called /\ gen.error \in {"none", "save"}

\* mcc and mnc are decimal strings of one to three digits
NumericPlmn(mcc, mnc) ==
    /\ IsNumeric(mcc) /\ Len(mcc) \in 1..3
    /\ IsNumeric(mnc) /\ Len(mnc) \in 1..3

\* the other arguments of the call are well-formed (cell_id and lac numeric
\* or "auto", band numeric) and the configuration could be saved
OthersWellFormed ==
    /\ IsAuto(gen.cell_id) \/ IsNumeric(gen.cell_id)
    /\ IsAuto(gen.lac) \/ IsNumeric(gen.lac)
    /\ IsNumeric(gen.band)
    /\ gen.error # "save"

\* C24: for numeric mcc and mnc of one to three digits generate_config
\* returns a configuration whose plmn_id is mcc followed by mnc zero-padded
\* to at least two digits (the other arguments being well-formed and the
\* configuration saved).
C24_PlmnIdIsPadded ==
    (gen.called /\ NumericPlmn(gen.mcc, gen.mnc) /\ OthersWellFormed)
    => /\ gen.ok
       /\ gen.config.plmn_id = gen.mcc \o PadLeft2(gen.mnc)

\* the call generate_config("456", "06", "auto", "auto", "3")
DefaultCall ==
    /\ gen.called
    /\ gen.mcc = <<"4", "5", "6">> /\ gen.mnc = <<"0", "6">>
    /\ gen.cell_id = Auto /\ gen.lac = Auto /\ gen.band = <<"3">>

\* C25: generate_config("456", "06", "auto", "auto", "3") returns (when the
\* configuration can be saved) a configuration with plmn_id "45606", tac
\* equal to lac, dl_earfcn 1200, ul_earfcn 19200 and center_freq 1842500000.
C25_DefaultCallResult ==
    (DefaultCall /\ gen.error # "save")
    => /\ gen.ok
       /\ gen.config.plmn_id = <<"4", "5", "6", "0", "6">>
       /\ gen.config.tac = gen.config.lac
       /\ gen.config.dl_earfcn = 1200
       /\ gen.config.ul_earfcn = 19200
       /\ gen.config.center_freq = 1842500000

\* the running call and the remembered one derived from the same (mcc, mnc)
SamePlmnAsRemembered ==
    /\ gen.called /\ remembered.called
    /\ gen.mcc = remembered.mcc /\ gen.mnc = remembered.mnc

C27_BandTriple ==
    (gen.called /\ gen.error \in {"none", "save", "band"})
    => /\ gen.error # "band"
       /\ gen.config.dl_earfcn = GetFrequencyConfig(gen.band).dl_earfcn
       /\ gen.config.ul_earfcn = GetFrequencyConfig(gen.band).ul_earfcn
       /\ gen.config.center_freq = GetFrequencyConfig(gen.band).center_freq
       /\ (gen.band \notin BandKeys =>
             /\ gen.config.dl_earfcn = 1200
             /\ gen.config.ul_earfcn = 19200
             /\ gen.config.center_freq = 1842500000)

\* C28: for a PLMN that is not in the operator table, network_name is
\* "Operator " followed by the plmn_id of the same configuration, and
\* short_network_name is "Op" followed by it.
C28_FallbackNamesUsePlmnId ==
    (Built /\ gen.mcc \o PadLeft2(gen.mnc) \notin OperatorPlmns)
    => /\ gen.config.network_name = <<"Operator ">> \o gen.config.plmn_id
       /\ gen.config.short_network_name = <<"Op">> \o gen.config.plmn_id

\* C29: generate_config raises exactly when mcc or mnc is not numeric: a
\* non-numeric mcc or mnc always raises, and a call with numeric mcc and mnc
\* whose other arguments are well-formed returns a configuration (failure
\* to save aside).
C29_ErrorsIffPlmnNotNumeric ==
    /\ (gen.called /\ (~IsNumeric(gen.mcc) \/ ~IsNumeric(gen.mnc)))
       => ~gen.ok
    /\ (gen.called /\ IsNumeric(gen.mcc) /\ IsNumeric(gen.mnc) /\ OthersWellFormed)
       => gen.ok

\* C38: a generate_config call that fails, for a non-numeric parameter or
\* for an error while the configuration is saved, leaves current_config as
\* it was before the call.
C38_FailedGenerationKeepsConfig ==
    [][(~gen.called /\ gen'.called /\ ~gen'.ok)
         => current_config' = current_config]_vars

====
